---- MODULE Spec2Model ----
(***************************************************************************)
(* Model of the instance network tag rules engine of forseti-security:     *)
(* InstanceNetworkTagRulesEngine, InstanceNetworkTagRuleBook and Rule      *)
(* (scanner/audit/instance_network_tag_rules_engine.py), and of the        *)
(* scanner that runs it, InstanceNetworkTagsScanner                        *)
(* (scanner/scanners/instance_network_tags_scanner.py).                    *)
(*                                                                         *)
(* Python values are modelled as follows.                                  *)
(*   - an optional value (None or a value) is a set with at most one       *)
(*     element: None == {} and Some(v) == {v};                             *)
(*   - a string that is matched against a glob is a sequence of            *)
(*     characters; a resource path is a sequence of such segments (the     *)
(*     text between two slashes);                                          *)
(*   - a dict keyed by rule index is a function on a set of naturals.      *)
(***************************************************************************)
EXTENDS Integers, Sequences, FiniteSets, TLC

VARIABLES
    rule_source,   \* the parsed rule definition file the engine loads from
    rule_book,     \* InstanceNetworkTagRulesEngine.rule_book (None or a book)
    it,            \* the violation iterator returned by the last successful
                   \* find_policy_violations call (None before the first one)
    yielded,       \* what the consumer of `it` has received so far
    result,        \* the operation that has just run and how it ended
    run_state,     \* where InstanceNetworkTagsScanner.run() stands
    stages,        \* the stages run() has entered, in order
    instance_network_tag_data,  \* what _retrieve returned to run()
    all_violations,             \* what _find_violations returned to run()
    sink,          \* the calls of _output_results_to_db, each with the
                   \* output records it was given
    building       \* the rule book that a build_rule_book call running
                   \* beside the evaluations is constructing (None when
                   \* no such call is under way)

scanner_vars ==
    <<run_state, stages, instance_network_tag_data, all_violations, sink>>

vars == <<rule_source, rule_book, it, yielded, result, run_state, stages,
          instance_network_tag_data, all_violations, sink, building>>

----------------------------------------------------------------------------
(* Bounds *)

MaxDefs == 2       \* longest list of rule definitions in a document
MaxRecords == 2    \* longest batch of records handed to the engine

----------------------------------------------------------------------------
(* Python helpers *)

None == {}
Some(v) == {v}
The(o) == CHOOSE v \in o : TRUE

\* dict.get(key, default)
Get(o, default) == IF o = None THEN default ELSE The(o)

SeqsUpTo(S, n) == UNION {[1..k -> S] : k \in 0..n}

Max(S) == CHOOSE m \in S : \A k \in S : k <= m

----------------------------------------------------------------------------
(* Strings *)

P1 == <<"p", "1">>
P2 == <<"p", "2">>
N1 == <<"n", "1">>
N2 == <<"n", "2">>
STAR == <<"*">>

COMPUTE == <<"compute">>
PROJECTS == <<"projects">>
NETWORKS == <<"networks">>

\* .../compute/v1/projects/{p}/global/networks/{n}
NetworkPath(p, n) ==
    <<COMPUTE, <<"v1">>, PROJECTS, p, <<"global">>, NETWORKS, n>>

\* a path without the compute/{version}/ prefix
ShortPath(p, n) == <<PROJECTS, p, <<"global">>, NETWORKS, n>>

----------------------------------------------------------------------------
(* regex_util.escape_and_globify and re.match *)

\* The compiled pattern: one token per character of the glob, the glob
\* star becoming a wildcard and every other character an escaped literal;
\* the pattern is anchored at both ends.
escape_and_globify(glob) ==
    [i \in 1..Len(glob) |->
        IF glob[i] = "*" THEN [any |-> TRUE, ch |-> ""]
                         ELSE [any |-> FALSE, ch |-> glob[i]]]

\* a match that may end before the end of the string
RECURSIVE re_match_prefix(_, _)
re_match_prefix(pattern, s) ==
    IF pattern = <<>> THEN TRUE
    ELSE IF Head(pattern).any
         THEN \E k \in 0..Len(s) :
                  re_match_prefix(Tail(pattern), SubSeq(s, k + 1, Len(s)))
         ELSE /\ s # <<>>
              /\ Head(s) = Head(pattern).ch
              /\ re_match_prefix(Tail(pattern), Tail(s))

RECURSIVE re_match(_, _)
re_match(pattern, s) ==
    IF pattern = <<>> THEN s = <<>>
    ELSE IF Head(pattern).any
         THEN \E k \in 0..Len(s) :
                  re_match(Tail(pattern), SubSeq(s, k + 1, Len(s)))
         ELSE /\ s # <<>>
              /\ Head(s) = Head(pattern).ch
              /\ re_match(Tail(pattern), Tail(s))

----------------------------------------------------------------------------
(* Rule *)

\* re.search(r'compute/.*/projects/([^/]*).*networks/([^/]*)', path): None,
\* or group(2), the segment after the last "networks/" that follows a
\* "compute/", something, "/projects/".
re_search_network(path) ==
    LET ks == {k \in 1..(Len(path) - 1) :
                  /\ path[k] = NETWORKS
                  /\ \E i, j \in 1..Len(path) :
                        /\ path[i] = COMPUTE
                        /\ path[j] = PROJECTS
                        /\ i + 2 <= j
                        /\ j + 1 <= k}
    IN IF ks = {} THEN None ELSE Some(path[Max(ks) + 1])

RuleViolation(rule, project_id, network, tags, rec) ==
    [resource_type |-> "instance",
     rule_name |-> rule.rule_name,
     rule_index |-> rule.rule_index,
     violation_type |-> "INSTANCE_NETWORK_TAG_VIOLATION",
     project |-> project_id,
     network |-> network,
     tags |-> tags,
     instance_name |-> rec.instance_name,
     raw_data |-> rec]

\* Rule.find_violations with the whitelist test applied also to rules
\* that have no whitelist.
Rule_find_violations_body_unguarded_whitelist(rule, rec) ==
    LET network_and_project == re_search_network(rec.network)
    IN IF network_and_project = None
       THEN [raise |-> TRUE, out |-> <<>>]
       ELSE LET network == The(network_and_project)
                tags == Get(rec.tags, <<>>)
            IN IF /\ re_match(rule.rules.network, network)
                  /\ re_match(rule.rules.project_id, rec.project_id)
                  /\ \/ \E i \in 1..Len(tags) :
                            tags[i] \in rule.rules.blacklist
                     \/ \E i \in 1..Len(tags) :
                            tags[i] \notin rule.rules.whitelist
               THEN [raise |-> FALSE,
                     out |-> <<RuleViolation(rule, rec.project_id, network,
                                             tags, rec)>>]
               ELSE [raise |-> FALSE, out |-> <<>>]

\* Rule.find_violations with a scope test that accepts a record when
\* either pattern matches.
Rule_find_violations_body_either_scope(rule, rec) ==
    LET network_and_project == re_search_network(rec.network)
    IN IF network_and_project = None
       THEN [raise |-> TRUE, out |-> <<>>]
       ELSE LET network == The(network_and_project)
                tags == Get(rec.tags, <<>>)
            IN IF /\ \/ re_match(rule.rules.network, network)
                     \/ re_match(rule.rules.project_id, rec.project_id)
                  /\ \/ \E i \in 1..Len(tags) :
                            tags[i] \in rule.rules.blacklist
                     \/ \E i \in 1..Len(tags) :
                            /\ rule.rules.whitelist # {}
                            /\ tags[i] \notin rule.rules.whitelist
               THEN [raise |-> FALSE,
                     out |-> <<RuleViolation(rule, rec.project_id, network,
                                             tags, rec)>>]
               ELSE [raise |-> FALSE, out |-> <<>>]

\* Rule.find_violations reporting only the offending tags.
Rule_find_violations_body_offending_tags(rule, rec) ==
    LET network_and_project == re_search_network(rec.network)
    IN IF network_and_project = None
       THEN [raise |-> TRUE, out |-> <<>>]
       ELSE LET network == The(network_and_project)
                tags == Get(rec.tags, <<>>)
                offends(t) ==
                    \/ t \in rule.rules.blacklist
                    \/ rule.rules.whitelist # {}
                       /\ t \notin rule.rules.whitelist
            IN IF /\ re_match(rule.rules.network, network)
                  /\ re_match(rule.rules.project_id, rec.project_id)
                  /\ \E i \in 1..Len(tags) : offends(tags[i])
               THEN [raise |-> FALSE,
                     out |-> <<RuleViolation(rule, rec.project_id, network,
                                             SelectSeq(tags, offends),
                                             rec)>>]
               ELSE [raise |-> FALSE, out |-> <<>>]

\* find_violations testing the project scope before it extracts the
\* network
Rule_find_violations_body_scope_first(rule, rec) ==
    IF ~re_match(rule.rules.project_id, rec.project_id)
    THEN [raise |-> FALSE, out |-> <<>>]
    ELSE LET network_and_project == re_search_network(rec.network)
         IN IF network_and_project = None
            THEN [raise |-> TRUE, out |-> <<>>]
            ELSE LET network == The(network_and_project)
                     tags == Get(rec.tags, <<>>)
                     whitelist == rule.rules.whitelist
                     blacklist == rule.rules.blacklist
                 IN IF /\ re_match(rule.rules.network, network)
                       /\ \/ \E i \in 1..Len(tags) : tags[i] \in blacklist
                          \/ \E i \in 1..Len(tags) :
                                 whitelist # {} /\ tags[i] \notin whitelist
                    THEN [raise |-> FALSE,
                          out |-> <<RuleViolation(rule, rec.project_id,
                                                  network, tags, rec)>>]
                    ELSE [raise |-> FALSE, out |-> <<>>]

\* find_violations counting a record without tags as one that misses the
\* whitelist
Rule_find_violations_body_no_tags_miss(rule, rec) ==
    LET network_and_project == re_search_network(rec.network)
    IN IF network_and_project = None
       THEN [raise |-> TRUE, out |-> <<>>]
       ELSE LET network == The(network_and_project)
                project_id == rec.project_id
                tags == Get(rec.tags, <<>>)
                whitelist == rule.rules.whitelist
                blacklist == rule.rules.blacklist
            IN IF /\ re_match(rule.rules.network, network)
                  /\ re_match(rule.rules.project_id, project_id)
                  /\ \/ \E i \in 1..Len(tags) : tags[i] \in blacklist
                     \/ /\ whitelist # {}
                        /\ \/ tags = <<>>
                           \/ \E i \in 1..Len(tags) : tags[i] \notin whitelist
               THEN [raise |-> FALSE,
                     out |-> <<RuleViolation(rule, project_id, network,
                                             tags, rec)>>]
               ELSE [raise |-> FALSE, out |-> <<>>]

\* One pass of the loop body of Rule.find_violations over one record:
\* "raise" when the path does not match (group() of None), otherwise the
\* violations it yields for the record.
Rule_find_violations_body(rule, rec) ==
    LET network_and_project == re_search_network(rec.network)
    IN IF network_and_project = None
       THEN [raise |-> TRUE, out |-> <<>>]
       ELSE LET network == The(network_and_project)
                project_id == rec.project_id
                tags == Get(rec.tags, <<>>)
                whitelist == rule.rules.whitelist
                blacklist == rule.rules.blacklist
            IN IF /\ re_match(rule.rules.network, network)
                  /\ re_match(rule.rules.project_id, project_id)
                  /\ \/ \E i \in 1..Len(tags) : tags[i] \in blacklist
                     \/ \E i \in 1..Len(tags) :
                            whitelist # {} /\ tags[i] \notin whitelist
               THEN [raise |-> FALSE,
                     out |-> <<RuleViolation(rule, project_id, network,
                                             tags, rec)>>]
               ELSE [raise |-> FALSE, out |-> <<>>]

----------------------------------------------------------------------------
(* InstanceNetworkTagRuleBook *)

\* resource_rules_map = {}
EmptyMap == [i \in {} |-> 0]

Rule(rule_name, rule_index, rules) ==
    [rule_name |-> rule_name, rule_index |-> rule_index, rules |-> rules]

\* add_rule without the test for a missing network
add_rule_network_unchecked(map, rule_def, rule_index) ==
    LET whitelist == Get(rule_def.whitelist, {})
        blacklist == Get(rule_def.blacklist, {})
    IN IF (whitelist = {} /\ blacklist = {}) \/ rule_def.project_id = None
       THEN [raise |-> TRUE, map |-> map, dropped |-> 0]
       ELSE LET rule ==
                    Rule(rule_def.name, rule_index,
                         [whitelist |-> whitelist,
                          blacklist |-> blacklist,
                          project_id |->
                              escape_and_globify(The(rule_def.project_id)),
                          network |->
                              escape_and_globify(Get(rule_def.network,
                                                     <<>>))])
            IN IF rule_index \notin DOMAIN map
               THEN [raise |-> FALSE,
                     map |-> [i \in DOMAIN map \cup {rule_index} |->
                                 IF i = rule_index THEN rule ELSE map[i]],
                     dropped |-> 0]
               ELSE [raise |-> FALSE, map |-> map, dropped |-> 1]

\* add_rule storing the rule whether or not its index is taken
add_rule_overwrites(map, rule_def, rule_index) ==
    LET whitelist == Get(rule_def.whitelist, {})
        blacklist == Get(rule_def.blacklist, {})
    IN IF (whitelist = {} /\ blacklist = {})
          \/ rule_def.project_id = None \/ rule_def.network = None
       THEN [raise |-> TRUE, map |-> map, dropped |-> 0]
       ELSE LET rule ==
                    Rule(rule_def.name, rule_index,
                         [whitelist |-> whitelist,
                          blacklist |-> blacklist,
                          project_id |->
                              escape_and_globify(The(rule_def.project_id)),
                          network |->
                              escape_and_globify(The(rule_def.network))])
            IN [raise |-> FALSE,
                map |-> [i \in DOMAIN map \cup {rule_index} |->
                            IF i = rule_index THEN rule ELSE map[i]],
                dropped |-> IF rule_index \in DOMAIN map THEN 1 ELSE 0]

\* add_rule looking at the index first: a definition whose index is
\* taken is dropped unvalidated
add_rule_index_first(map, rule_def, rule_index) ==
    LET project_id == rule_def.project_id
        network == rule_def.network
        whitelist == Get(rule_def.whitelist, {})
        blacklist == Get(rule_def.blacklist, {})
    IN IF rule_index \in DOMAIN map
       THEN [raise |-> FALSE, map |-> map, dropped |-> 1]
       ELSE IF (whitelist = {} /\ blacklist = {})
               \/ project_id = None \/ network = None
       THEN [raise |-> TRUE, map |-> map, dropped |-> 0]
       ELSE LET rule_def_resource ==
                    [whitelist |-> whitelist,
                     blacklist |-> blacklist,
                     project_id |-> escape_and_globify(The(project_id)),
                     network |-> escape_and_globify(The(network))]
                rule == Rule(rule_def.name, rule_index, rule_def_resource)
            IN [raise |-> FALSE,
                map |-> [i \in DOMAIN map \cup {rule_index} |->
                            IF i = rule_index THEN rule ELSE map[i]],
                dropped |-> 0]

\* add_rule: the map afterwards, whether InvalidRulesSchemaError was
\* raised, and whether the compiled rule was dropped because its index
\* already holds a rule.
add_rule(map, rule_def, rule_index) ==
    LET project_id == rule_def.project_id
        network == rule_def.network
        whitelist == Get(rule_def.whitelist, {})
        blacklist == Get(rule_def.blacklist, {})
    IN IF (whitelist = {} /\ blacklist = {})
          \/ project_id = None \/ network = None
       THEN [raise |-> TRUE, map |-> map, dropped |-> 0]
       ELSE LET rule_def_resource ==
                    [whitelist |-> whitelist,
                     blacklist |-> blacklist,
                     project_id |-> escape_and_globify(The(project_id)),
                     network |-> escape_and_globify(The(network))]
                rule == Rule(rule_def.name, rule_index, rule_def_resource)
            IN IF rule_index \notin DOMAIN map
               THEN [raise |-> FALSE,
                     map |-> [i \in DOMAIN map \cup {rule_index} |->
                                 IF i = rule_index THEN rule ELSE map[i]],
                     dropped |-> 0]
               ELSE [raise |-> FALSE, map |-> map, dropped |-> 1]

\* add_rules emptying the map when a definition raises
RECURSIVE add_rules_from_clears_on_error(_, _, _, _)
add_rules_from_clears_on_error(map, rules, i, dropped) ==
    IF i >= Len(rules)
    THEN [raise |-> FALSE, map |-> map, dropped |-> dropped]
    ELSE LET r == add_rule(map, rules[i + 1], i)
         IN IF r.raise
            THEN [raise |-> TRUE, map |-> EmptyMap, dropped |-> dropped]
            ELSE add_rules_from_clears_on_error(r.map, rules, i + 1,
                                                dropped + r.dropped)

\* add_rules numbering the definitions from 1
RECURSIVE add_rules_from_one_based(_, _, _, _)
add_rules_from_one_based(map, rules, i, dropped) ==
    IF i >= Len(rules)
    THEN [raise |-> FALSE, map |-> map, dropped |-> dropped]
    ELSE LET r == add_rule(map, rules[i + 1], i + 1)
         IN IF r.raise
            THEN [raise |-> TRUE, map |-> r.map, dropped |-> dropped]
            ELSE add_rules_from_one_based(r.map, rules, i + 1,
                                          dropped + r.dropped)

\* add_rules giving each definition the next free index of the book
RECURSIVE add_rules_from_appends(_, _, _, _)
add_rules_from_appends(map, rules, i, dropped) ==
    IF i >= Len(rules)
    THEN [raise |-> FALSE, map |-> map, dropped |-> dropped]
    ELSE LET r == add_rule(map, rules[i + 1], Cardinality(DOMAIN map))
         IN IF r.raise
            THEN [raise |-> TRUE, map |-> r.map, dropped |-> dropped]
            ELSE add_rules_from_appends(r.map, rules, i + 1,
                                        dropped + r.dropped)

\* add_rules validating every definition before it adds the first one
RECURSIVE add_rules_from_validates_first(_, _, _, _)
add_rules_from_validates_first(map, rules, i, dropped) ==
    IF i >= Len(rules)
    THEN [raise |-> FALSE, map |-> map, dropped |-> dropped]
    ELSE IF \E k \in (i + 1)..Len(rules) :
                add_rule(EmptyMap, rules[k], k - 1).raise
    THEN [raise |-> TRUE, map |-> map, dropped |-> dropped]
    ELSE LET r == add_rule(map, rules[i + 1], i)
         IN add_rules_from_validates_first(r.map, rules, i + 1,
                                           dropped + r.dropped)

\* the loop of add_rules from position i (0-based) of the list on; dropped
\* counts the definitions dropped so far
RECURSIVE add_rules_from(_, _, _, _)
add_rules_from(map, rules, i, dropped) ==
    IF i >= Len(rules)
    THEN [raise |-> FALSE, map |-> map, dropped |-> dropped]
    ELSE LET r == add_rule(map, rules[i + 1], i)
         IN IF r.raise
            THEN [raise |-> TRUE, map |-> r.map, dropped |-> dropped]
            ELSE add_rules_from(r.map, rules, i + 1, dropped + r.dropped)

\* add_rules(rule_defs): rule_defs.get('rules', []) enumerated from 0
add_rules(map, rule_defs) ==
    add_rules_from(map, Get(rule_defs, <<>>), 0, 0)

\* InstanceNetworkTagRuleBook(rule_defs)
RuleBook_init(rule_defs) ==
    IF rule_defs = None
    THEN [raise |-> FALSE, map |-> EmptyMap, dropped |-> 0]
    ELSE add_rules(EmptyMap, rule_defs)

\* the rules in the reverse of the key order
get_resource_rules_descending(map) ==
    LET keys == DOMAIN map
        n == Cardinality(keys)
        nth(k) == CHOOSE i \in keys : Cardinality({j \in keys : j > i}) = k - 1
    IN [k \in 1..n |-> map[nth(k)]]

\* resource_rules_map.values(): a list, in key order
get_resource_rules(map) ==
    LET keys == DOMAIN map
        n == Cardinality(keys)
        nth(k) == CHOOSE i \in keys : Cardinality({j \in keys : j < i}) = k - 1
    IN [k \in 1..n |-> map[nth(k)]]

----------------------------------------------------------------------------
(* InstanceNetworkTagRulesEngine *)

\* BaseRulesEngine._load_rule_definitions: the parsed rule definition file
_load_rule_definitions(source) == source

\* build_rule_book assigning the book before its rules are added, so that
\* a failed construction leaves the rules added so far
build_rule_book_publishes_partial(book, source) ==
    LET b == RuleBook_init(_load_rule_definitions(source))
    IN [raise |-> b.raise, rule_book |-> Some(b.map)]

\* build_rule_book adding the rules of the file to the book the engine
\* has instead of building a new book
build_rule_book_accumulates(book, source) ==
    LET b == add_rules(IF book = None THEN EmptyMap ELSE The(book),
                       _load_rule_definitions(source))
    IN IF b.raise THEN [raise |-> TRUE, rule_book |-> book]
       ELSE [raise |-> FALSE, rule_book |-> Some(b.map)]

\* build_rule_book reading a rule definition file that can be read only
\* once: a later build finds it at its end and builds an empty book
build_rule_book_loads_once(book, source) ==
    LET b == RuleBook_init(IF book = None
                           THEN _load_rule_definitions(source)
                           ELSE None)
    IN IF b.raise THEN [raise |-> TRUE, rule_book |-> book]
       ELSE [raise |-> FALSE, rule_book |-> Some(b.map)]

\* build_rule_book: the engine's rule_book afterwards; the constructor
\* raises before the assignment takes place.
build_rule_book(book, source) ==
    LET b == RuleBook_init(_load_rule_definitions(source))
    IN IF b.raise THEN [raise |-> TRUE, rule_book |-> book]
       ELSE [raise |-> FALSE, rule_book |-> Some(b.map)]

\* find_policy_violations keeping only the generator of the last rule
\* instead of chaining it to the earlier ones.
find_policy_violations_last_rule_only(book, source, records, force_rebuild) ==
    LET b == IF book = None \/ force_rebuild
             THEN RuleBook_init(_load_rule_definitions(source))
             ELSE [raise |-> FALSE, map |-> The(book), dropped |-> 0]
        rules == get_resource_rules(b.map)
    IN IF b.raise
       THEN [raise |-> TRUE, rule_book |-> book, violations |-> None]
       ELSE [raise |-> FALSE, rule_book |-> Some(b.map),
             violations |->
                 Some([rules |-> IF rules = <<>> THEN <<>>
                                 ELSE <<rules[Len(rules)]>>,
                       records |-> records, r |-> 1, c |-> 1])]

\* find_policy_violations rebuilding only when there is no rule book
find_policy_violations_ignores_force(book, source, records, force_rebuild) ==
    LET b == IF book = None
             THEN build_rule_book(book, source)
             ELSE [raise |-> FALSE, rule_book |-> book]
    IN IF b.raise
       THEN [raise |-> TRUE, rule_book |-> b.rule_book, violations |-> None]
       ELSE [raise |-> FALSE, rule_book |-> b.rule_book,
             violations |->
                 Some([rules |-> get_resource_rules(The(b.rule_book)),
                       records |-> records, r |-> 1, c |-> 1])]

\* find_policy_violations: the chain of one generator per rule over the
\* records, none of them started; r and c are the rule whose generator is
\* active and the record it will read next.
find_policy_violations(book, source, records, force_rebuild) ==
    LET b == IF book = None \/ force_rebuild
             THEN build_rule_book(book, source)
             ELSE [raise |-> FALSE, rule_book |-> book]
    IN IF b.raise
       THEN [raise |-> TRUE, rule_book |-> b.rule_book, violations |-> None]
       ELSE [raise |-> FALSE, rule_book |-> b.rule_book,
             violations |->
                 Some([rules |-> get_resource_rules(The(b.rule_book)),
                       records |-> records, r |-> 1, c |-> 1])]

\* Engine add_rules making a rule book of the definitions when the engine
\* has none
Engine_add_rules_creates_book(book, rules) ==
    LET a == add_rules(IF book = None THEN EmptyMap ELSE The(book), rules)
    IN [raise |-> a.raise, rule_book |-> Some(a.map), dropped |-> a.dropped]

\* Engine add_rules: nothing without a rule book; otherwise the book's
\* add_rules, whose insertions stay when a later definition raises.
Engine_add_rules(book, rules) ==
    IF book # None
    THEN LET a == add_rules(The(book), rules)
         IN [raise |-> a.raise, rule_book |-> Some(a.map),
             dropped |-> a.dropped]
    ELSE [raise |-> FALSE, rule_book |-> book, dropped |-> 0]

\* next() on a sequence that starts over from its first rule and record
\* once it has come to its end
RECURSIVE chain_next_restarts(_, _, _, _)
chain_next_restarts(rules, records, r, c) ==
    IF r > Len(rules)
    THEN [outcome |-> "StopIteration", r |-> 1, c |-> 1, at |-> <<r, c>>,
          item |-> <<>>]
    ELSE IF c > Len(records)
    THEN chain_next_restarts(rules, records, r + 1, 1)
    ELSE LET b == Rule_find_violations_body(rules[r], records[c])
         IN IF b.raise
            THEN [outcome |-> "AttributeError", r |-> r + 1, c |-> 1,
                  at |-> <<r, c>>, item |-> <<>>]
            ELSE IF b.out # <<>>
            THEN [outcome |-> "ok", r |-> r, c |-> c + 1,
                  at |-> <<r, c>>, item |-> b.out]
            ELSE chain_next_restarts(rules, records, r, c + 1)

\* next() on the chain: runs the active generator up to its next yield, to
\* its end (the chain then goes on to the next generator) or to the
\* exception it raises, which leaves that generator finished.
RECURSIVE chain_next(_, _, _, _)
chain_next(rules, records, r, c) ==
    IF r > Len(rules)
    THEN [outcome |-> "StopIteration", r |-> r, c |-> c, at |-> <<r, c>>,
          item |-> <<>>]
    ELSE IF c > Len(records)
    THEN chain_next(rules, records, r + 1, 1)
    ELSE LET b == Rule_find_violations_body(rules[r], records[c])
         IN IF b.raise
            THEN [outcome |-> "AttributeError", r |-> r + 1, c |-> 1,
                  at |-> <<r, c>>, item |-> <<>>]
            ELSE IF b.out # <<>>
            THEN [outcome |-> "ok", r |-> r, c |-> c + 1,
                  at |-> <<r, c>>, item |-> b.out]
            ELSE chain_next(rules, records, r, c + 1)

\* A for loop (or list.extend) over the chain from where it stands, out
\* being the items taken so far: next() until StopIteration; an exception
\* of a generator ends the loop and goes to the caller.
RECURSIVE drain_from(_, _, _, _, _)
drain_from(rules, records, r, c, out) ==
    LET n == chain_next(rules, records, r, c)
    IN IF n.outcome = "ok"
       THEN drain_from(rules, records, n.r, n.c, Append(out, n.item[1]))
       ELSE [raise |-> n.outcome = "AttributeError", out |-> out,
             r |-> n.r, c |-> n.c]

drain(rules, records, r, c) == drain_from(rules, records, r, c, <<>>)

----------------------------------------------------------------------------
(* InstanceNetworkTagsScanner *)

\* _flatten_violations taking the resource_id from the violation's
\* project instead of its instance name
_flatten_violations_resource_id_is_project(violations) ==
    [k \in 1..Len(violations) |->
        LET violation == violations[k]
        IN [resource_id |-> violation.project,
            resource_type |-> violation.resource_type,
            rule_index |-> violation.rule_index,
            rule_name |-> violation.rule_name,
            violation_type |-> violation.violation_type,
            violation_data |->
                [project |-> violation.project,
                 network |-> violation.network,
                 tags |-> violation.tags,
                 instance_name |-> violation.instance_name,
                 raw_data |-> violation.raw_data]]]

\* _flatten_violations: the dicts the generator yields when it is
\* iterated to its end, one per RuleViolation and in their order
_flatten_violations(violations) ==
    [k \in 1..Len(violations) |->
        LET violation == violations[k]
        IN [resource_id |-> violation.instance_name,
            resource_type |-> violation.resource_type,
            rule_index |-> violation.rule_index,
            rule_name |-> violation.rule_name,
            violation_type |-> violation.violation_type,
            violation_data |->
                [project |-> violation.project,
                 network |-> violation.network,
                 tags |-> violation.tags,
                 instance_name |-> violation.instance_name,
                 raw_data |-> violation.raw_data]]]

\* _find_violations assigning the violations of each element to
\* all_violations instead of extending it
RECURSIVE _find_violations_from_keeps_last(_, _, _, _, _)
_find_violations_from_keeps_last(book, source, enforced_tags_data, k, all) ==
    IF k > Len(enforced_tags_data)
    THEN [outcome |-> "ok", rule_book |-> book, all_violations |-> all]
    ELSE LET f == find_policy_violations(book, source,
                                         enforced_tags_data[k], FALSE)
             i == The(f.violations)
             d == drain(i.rules, i.records, i.r, i.c)
         IN IF f.raise
            THEN [outcome |-> "InvalidRulesSchemaError",
                  rule_book |-> f.rule_book, all_violations |-> all]
            ELSE IF d.raise
            THEN [outcome |-> "AttributeError", rule_book |-> f.rule_book,
                  all_violations |-> d.out]
            ELSE _find_violations_from_keeps_last(
                     f.rule_book, source, enforced_tags_data, k + 1, d.out)

\* _find_violations from element k of enforced_tags_data on: for each
\* element find_policy_violations, then all_violations.extend over the
\* returned chain; an exception of either goes to the caller.
RECURSIVE _find_violations_from(_, _, _, _, _)
_find_violations_from(book, source, enforced_tags_data, k, all) ==
    IF k > Len(enforced_tags_data)
    THEN [outcome |-> "ok", rule_book |-> book, all_violations |-> all]
    ELSE LET f == find_policy_violations(book, source,
                                         enforced_tags_data[k], FALSE)
             i == The(f.violations)
             d == drain(i.rules, i.records, i.r, i.c)
         IN IF f.raise
            THEN [outcome |-> "InvalidRulesSchemaError",
                  rule_book |-> f.rule_book, all_violations |-> all]
            ELSE IF d.raise
            THEN [outcome |-> "AttributeError", rule_book |-> f.rule_book,
                  all_violations |-> all \o d.out]
            ELSE _find_violations_from(f.rule_book, source,
                                       enforced_tags_data, k + 1,
                                       all \o d.out)

_find_violations(book, source, enforced_tags_data) ==
    _find_violations_from(book, source, enforced_tags_data, 1, <<>>)

\* BaseScanner._output_results_to_db: what the persistence sink receives
\* from one call, the whole sequence it is given
_output_results_to_db(violations) == violations

\* _output_results: the call it makes of the persistence sink
_output_results(violations) ==
    _output_results_to_db(_flatten_violations(violations))

----------------------------------------------------------------------------
(* Inputs *)

Def(name, project_id, network, whitelist, blacklist) ==
    [name |-> name, project_id |-> project_id, network |-> network,
     whitelist |-> whitelist, blacklist |-> blacklist]

DBlack == Def("black", Some(STAR), Some(N1), None, Some({"bad"}))
DWhite == Def("white", Some(P1), Some(STAR), Some({"ok"}), Some({}))
DNoProject == Def("noproject", None, Some(N1), None, Some({"bad"}))
DNoNetwork == Def("nonetwork", Some(STAR), None, Some({"ok"}), None)
DNoLists == Def("nolists", Some(STAR), Some(N1), Some({}), None)

DefPool == {DBlack, DWhite, DNoProject, DNoNetwork, DNoLists}

\* a parsed rule definition file or add_rules batch: an empty dict (None
\* here, falsy and without a rules key) or a dict with a rules list
Documents == {None} \cup {Some(s) : s \in SeqsUpTo(DefPool, MaxDefs)}

Record(instance_name, project_id, network, tags) ==
    [instance_name |-> instance_name, project_id |-> project_id,
     network |-> network, tags |-> tags]

RecordPool ==
    {Record("i1", P1, NetworkPath(P1, N1), Some(<<"bad", "x">>)),
     Record("i2", P1, NetworkPath(P1, N1), Some(<<"ok">>)),
     Record("i3", P2, NetworkPath(P2, N1), Some(<<"ok", "bad">>)),
     Record("i4", P1, ShortPath(P1, N1), Some(<<"bad">>)),
     Record("i5", P1, NetworkPath(P1, N1), None),
     Record("i6", P1, NetworkPath(P1, N2), Some(<<"bad">>))}

Batches == SeqsUpTo(RecordPool, MaxRecords)

\* Smaller inputs for the specification in which the rule definition file
\* and the rule book change between the calls: lists of valid definitions,
\* and such lists ending in a malformed one.
EngineDocuments ==
    LET valid == SeqsUpTo({DBlack, DWhite}, MaxDefs)
    IN {None} \cup {Some(s) : s \in valid}
              \cup {Some(Append(s, DNoProject)) :
                        s \in {v \in valid : Len(v) < MaxDefs}}

\* batches for add_rules, with a malformed definition at any position
BatchDocuments ==
    {None} \cup {Some(s) : s \in SeqsUpTo({DBlack, DWhite, DNoProject},
                                           MaxDefs)}

EngineRecordPool ==
    {Record("i1", P1, NetworkPath(P1, N1), Some(<<"bad", "x">>)),
     Record("i4", P1, ShortPath(P1, N1), Some(<<"bad">>))}

EngineBatches == {<<rec>> : rec \in EngineRecordPool}

\* Inputs of the scanner. A rule definition file the constructor can build
\* its rule book from, and what _retrieve returns: one list of network tag
\* records per instance.
ScannerDocuments ==
    {None} \cup {Some(s) : s \in SeqsUpTo({DBlack, DWhite}, MaxDefs)}

InstancePool ==
    {<<Record("i1", P1, NetworkPath(P1, N1), Some(<<"bad", "x">>))>>,
     <<Record("i2", P1, NetworkPath(P1, N1), Some(<<"ok">>))>>,
     <<Record("i4", P1, ShortPath(P1, N1), Some(<<"bad">>))>>,
     <<Record("i3", P2, NetworkPath(P2, N1), Some(<<"ok", "bad">>)),
       Record("i3", P1, NetworkPath(P1, N2), Some(<<"ok", "bad">>))>>,
     <<Record("i7", P1, NetworkPath(P1, N1), Some(<<"bad">>)),
       Record("i7", P1, ShortPath(P1, N1), Some(<<"bad">>))>>}

RetrievedData == SeqsUpTo(InstancePool, MaxRecords)

\* Inputs for the scope patterns: files of one blacklist rule whose project
\* and network scope are the glob star or a literal, and single records
\* carrying the blacklisted tag whose project and network are that
\* literal, the literal with one more character, or the empty string.
ScopeNames(literal) == {<<>>, literal, Append(literal, "2")}

ScopeDocuments ==
    {Some(<<Def("scope", Some(pg), Some(ng), None, Some({"bad"}))>>) :
        pg \in {STAR, P1}, ng \in {STAR, N1, Append(N1, "2")}}

ScopeBatches ==
    {<<Record("i8", p, NetworkPath(p, n), Some(<<"bad">>))>> :
        p \in ScopeNames(P1), n \in ScopeNames(N1)}

\* Inputs for the records a rule cannot evaluate or has nothing to
\* evaluate in: files of valid rules, one of them scoped to a project and
\* a network that no record is on, and batches of records on project p1,
\* one whose network path does not conform, one with an empty tag list,
\* one without a tag list and one with tags.
DOther == Def("other", Some(P2), Some(N2), Some({"ok"}), Some({"bad"}))

EdgeDocuments ==
    {Some(s) : s \in SeqsUpTo({DBlack, DWhite, DOther}, MaxDefs) \ {<<>>}}

EdgeRecordPool ==
    {Record("i9", P1, ShortPath(P1, N1), Some(<<"bad">>)),
     Record("i10", P1, NetworkPath(P1, N1), Some(<<>>)),
     Record("i11", P1, NetworkPath(P1, N1), None),
     Record("i1", P1, NetworkPath(P1, N1), Some(<<"bad", "x">>))}

EdgeBatches == SeqsUpTo(EdgeRecordPool, MaxRecords) \ {<<>>}

----------------------------------------------------------------------------
(* Actions *)

SchemaError == "InvalidRulesSchemaError"

\* how an operation ended, and for add_rules how many definitions it
\* dropped because their index was taken
Result(op, outcome, dropped) ==
    [op |-> op, outcome |-> outcome, dropped |-> dropped]

Outcome(raise) == IF raise THEN SchemaError ELSE "ok"

InitFrom(documents) ==
    /\ rule_source \in documents
    /\ rule_book = None
    /\ it = None
    /\ yielded = <<>>
    /\ result = Result("init", "ok", 0)
    /\ run_state = "Idle"
    /\ stages = <<>>
    /\ instance_network_tag_data = <<>>
    /\ all_violations = <<>>
    /\ sink = <<>>
    /\ building = None

\* the rule definition file is edited
EditRules(documents) ==
    /\ rule_source' \in documents \ {rule_source}
    /\ result' = Result("edit", "ok", 0)
    /\ UNCHANGED <<rule_book, it, yielded, building>>
    /\ UNCHANGED scanner_vars

BuildRuleBook ==
    LET b == build_rule_book(rule_book, rule_source)
    IN /\ rule_book' = b.rule_book
       /\ result' = Result("build_rule_book", Outcome(b.raise), 0)
       /\ UNCHANGED <<rule_source, it, yielded, building>>
       /\ UNCHANGED scanner_vars

AddRules(rules) ==
    LET a == Engine_add_rules(rule_book, rules)
    IN /\ rule_book' = a.rule_book
       /\ result' = Result("add_rules", Outcome(a.raise), a.dropped)
       /\ UNCHANGED <<rule_source, it, yielded, building>>
       /\ UNCHANGED scanner_vars

FindPolicyViolations(records, force_rebuild) ==
    LET f == find_policy_violations(rule_book, rule_source, records,
                                    force_rebuild)
    IN /\ rule_book' = f.rule_book
       /\ result' = Result("find_policy_violations", Outcome(f.raise), 0)
       /\ IF f.raise
          THEN UNCHANGED <<it, yielded>>
          ELSE it' = f.violations /\ yielded' = <<>>
       /\ UNCHANGED <<rule_source, building>>
       /\ UNCHANGED scanner_vars

\* next() evaluating the rules the rule book holds when it is called
IterNext_live_rules ==
    /\ it # None
    /\ LET i == The(it)
           live == IF rule_book = None THEN <<>>
                   ELSE get_resource_rules(The(rule_book))
           n == chain_next(live, i.records, i.r, i.c)
       IN /\ it' = Some([i EXCEPT !.r = n.r, !.c = n.c])
          /\ yielded' = IF n.outcome = "ok"
                        THEN Append(yielded, [r |-> n.at[1], c |-> n.at[2],
                                              violation |-> n.item[1]])
                        ELSE yielded
          /\ result' = Result("next", n.outcome, 0)
    /\ UNCHANGED <<rule_source, rule_book, building>>
    /\ UNCHANGED scanner_vars

\* the caller takes the next violation of the sequence it holds
IterNext ==
    /\ it # None
    /\ LET i == The(it)
           n == chain_next(i.rules, i.records, i.r, i.c)
       IN /\ it' = Some([i EXCEPT !.r = n.r, !.c = n.c])
          /\ yielded' = IF n.outcome = "ok"
                        THEN Append(yielded, [r |-> n.at[1], c |-> n.at[2],
                                              violation |-> n.item[1]])
                        ELSE yielded
          /\ result' = Result("next", n.outcome, 0)
    /\ UNCHANGED <<rule_source, rule_book, building>>
    /\ UNCHANGED scanner_vars

\* The engine over one rule definition file: the book is built and
\* extended and records are evaluated, in any order.
Init == InitFrom(EngineDocuments)

Next ==
    \/ BuildRuleBook
    \/ \E rules \in EngineDocuments : AddRules(rules)
    \/ \E records \in EngineBatches, force_rebuild \in BOOLEAN :
           FindPolicyViolations(records, force_rebuild)
    \/ IterNext

Spec == Init /\ [][Next]_vars

\* Rule book construction from a file of any kind of rule definitions that
\* is edited between the calls, and its extension by batches.
InitBuild == InitFrom(Documents)

NextBuild ==
    \/ EditRules(Documents)
    \/ BuildRuleBook
    \/ \E rules \in BatchDocuments : AddRules(rules)

SpecBuild == InitBuild /\ [][NextBuild]_vars

\* Evaluation calls on an engine whose file is edited between them.
InitFind == InitFrom(EngineDocuments)

NextFind ==
    \/ EditRules(EngineDocuments)
    \/ \E records \in EngineBatches, force_rebuild \in BOOLEAN :
           FindPolicyViolations(records, force_rebuild)

SpecFind == InitFind /\ [][NextFind]_vars

\* Evaluation of record batches against the rule book of one file.
InitRule == InitFrom(Documents)

\* the caller evaluates one batch after the other, each to its end
Evaluate(records, force_rebuild) ==
    /\ it = None \/ result = Result("next", "StopIteration", 0)
    /\ FindPolicyViolations(records, force_rebuild)

NextRule ==
    \/ \E records \in Batches, force_rebuild \in BOOLEAN :
           Evaluate(records, force_rebuild)
    \/ IterNext

SpecRule == InitRule /\ [][NextRule]_vars

\* Evaluation of single records against a rule with given scope patterns.
InitScope == InitFrom(ScopeDocuments)

NextScope ==
    \/ \E records \in ScopeBatches : Evaluate(records, FALSE)
    \/ IterNext

SpecScope == InitScope /\ [][NextScope]_vars

\* Evaluation of batches that hold a record without a conforming network
\* path or without tags, each batch iterated to its end.
InitEdge == InitFrom(EdgeDocuments)

NextEdge ==
    \/ \E records \in EdgeBatches : Evaluate(records, FALSE)
    \/ IterNext

SpecEdge == InitEdge /\ [][NextEdge]_vars

----------------------------------------------------------------------------
(* The scanner's run *)

\* a constructor that creates the engine and does not build its rule book
InitScanner_without_build ==
    /\ rule_source \in ScannerDocuments
    /\ rule_book = None
    /\ it = None
    /\ yielded = <<>>
    /\ result = Result("__init__", "ok", 0)
    /\ run_state = "Idle"
    /\ stages = <<>>
    /\ instance_network_tag_data = <<>>
    /\ all_violations = <<>>
    /\ sink = <<>>
    /\ building = None

\* InstanceNetworkTagsScanner(...): the engine with the rule book that the
\* constructor has built from the rules file
InitScanner ==
    /\ rule_source \in ScannerDocuments
    /\ rule_book = build_rule_book(None, rule_source).rule_book
    /\ it = None
    /\ yielded = <<>>
    /\ result = Result("__init__", "ok", 0)
    /\ run_state = "Idle"
    /\ stages = <<>>
    /\ instance_network_tag_data = <<>>
    /\ all_violations = <<>>
    /\ sink = <<>>
    /\ building = None

\* run() is called and enters _retrieve
Run ==
    /\ run_state = "Idle"
    /\ run_state' = "Retrieving"
    /\ stages' = <<"retrieve">>
    /\ result' = Result("run", "running", 0)
    /\ UNCHANGED building
    /\ UNCHANGED <<rule_source, rule_book, it, yielded,
                   instance_network_tag_data, all_violations, sink>>

\* _retrieve returns the instances' network tags; run() enters
\* _find_violations
Retrieve(enforced_tags_data) ==
    /\ run_state = "Retrieving"
    /\ run_state' = "Evaluating"
    /\ stages' = Append(stages, "evaluate")
    /\ instance_network_tag_data' = enforced_tags_data
    /\ UNCHANGED building
    /\ UNCHANGED <<rule_source, rule_book, it, yielded, result,
                   all_violations, sink>>

\* run() taking a failed retrieval for an empty result and going on
RetrieveFails_swallowed ==
    /\ run_state = "Retrieving"
    /\ run_state' = "Evaluating"
    /\ stages' = Append(stages, "evaluate")
    /\ instance_network_tag_data' = <<>>
    /\ UNCHANGED building
    /\ UNCHANGED <<rule_source, rule_book, it, yielded, result,
                   all_violations, sink>>

\* get_instance_networks_tags raises (MySQLError); run() has no handler
RetrieveFails ==
    /\ run_state = "Retrieving"
    /\ run_state' = "Failed"
    /\ result' = Result("run", "MySQLError", 0)
    /\ UNCHANGED building
    /\ UNCHANGED <<rule_source, rule_book, it, yielded, stages,
                   instance_network_tag_data, all_violations, sink>>

\* run() returning after _find_violations, without _output_results
FindViolations_returns_at_once ==
    /\ run_state = "Evaluating"
    /\ LET v == _find_violations(rule_book, rule_source,
                                 instance_network_tag_data)
       IN /\ rule_book' = v.rule_book
          /\ IF v.outcome = "ok"
             THEN /\ run_state' = "Done"
                  /\ all_violations' = v.all_violations
                  /\ result' = Result("run", "ok", 0)
                  /\ UNCHANGED stages
             ELSE /\ run_state' = "Failed"
                  /\ result' = Result("run", v.outcome, 0)
                  /\ UNCHANGED <<stages, all_violations>>
    /\ UNCHANGED building
    /\ UNCHANGED <<rule_source, it, yielded, instance_network_tag_data,
                   sink>>

\* run() going on to _output_results with what had been collected when
\* _find_violations raised
FindViolations_emits_partial ==
    /\ run_state = "Evaluating"
    /\ LET v == _find_violations(rule_book, rule_source,
                                 instance_network_tag_data)
       IN /\ rule_book' = v.rule_book
          /\ run_state' = "Emitting"
          /\ stages' = Append(stages, "emit")
          /\ all_violations' = v.all_violations
          /\ UNCHANGED result
    /\ UNCHANGED building
    /\ UNCHANGED <<rule_source, it, yielded, instance_network_tag_data,
                   sink>>

\* _find_violations runs; when it returns run() enters _output_results,
\* when it raises run() ends with the exception
FindViolations ==
    /\ run_state = "Evaluating"
    /\ LET v == _find_violations(rule_book, rule_source,
                                 instance_network_tag_data)
       IN /\ rule_book' = v.rule_book
          /\ IF v.outcome = "ok"
             THEN /\ run_state' = "Emitting"
                  /\ stages' = Append(stages, "emit")
                  /\ all_violations' = v.all_violations
                  /\ UNCHANGED result
             ELSE /\ run_state' = "Failed"
                  /\ result' = Result("run", v.outcome, 0)
                  /\ UNCHANGED <<stages, all_violations>>
    /\ UNCHANGED building
    /\ UNCHANGED <<rule_source, it, yielded, instance_network_tag_data,
                   sink>>

\* _output_results hands the flattened violations to the sink, which
\* returns; run() returns
OutputResults ==
    /\ run_state = "Emitting"
    /\ sink' = Append(sink, _output_results(all_violations))
    /\ run_state' = "Done"
    /\ result' = Result("run", "ok", 0)
    /\ UNCHANGED building
    /\ UNCHANGED <<rule_source, rule_book, it, yielded, stages,
                   instance_network_tag_data, all_violations>>

\* the sink raises; run() has no handler
OutputResultsFails ==
    /\ run_state = "Emitting"
    /\ sink' = Append(sink, _output_results(all_violations))
    /\ run_state' = "Failed"
    /\ result' = Result("run", "MySQLError", 0)
    /\ UNCHANGED building
    /\ UNCHANGED <<rule_source, rule_book, it, yielded, stages,
                   instance_network_tag_data, all_violations>>

NextScanner ==
    \/ Run
    \/ \E enforced_tags_data \in RetrievedData : Retrieve(enforced_tags_data)
    \/ RetrieveFails
    \/ FindViolations
    \/ OutputResults
    \/ OutputResultsFails

SpecScanner == InitScanner /\ [][NextScanner]_vars

----------------------------------------------------------------------------
(* build_rule_book running beside evaluations on one engine *)

\* build_rule_book is called: _load_rule_definitions returns and the
\* constructor starts on an empty resource_rules_map
BuildBegin ==
    /\ building = None
    /\ building' = Some([rule_defs |-> _load_rule_definitions(rule_source),
                         i |-> 0, map |-> EmptyMap])
    /\ result' = Result("build_rule_book", "running", 0)
    /\ UNCHANGED <<rule_source, rule_book, it, yielded>>
    /\ UNCHANGED scanner_vars

\* the constructor adding each rule to the engine's rule book as soon as
\* it is compiled
BuildAddRule_in_place ==
    /\ building # None
    /\ LET b == The(building)
           rules == Get(b.rule_defs, <<>>)
       IN /\ b.i < Len(rules)
          /\ LET a == add_rule(b.map, rules[b.i + 1], b.i)
             IN IF a.raise
                THEN /\ building' = None
                     /\ result' = Result("build_rule_book", SchemaError, 0)
                     /\ UNCHANGED rule_book
                ELSE /\ building' = Some([b EXCEPT !.i = b.i + 1,
                                                   !.map = a.map])
                     /\ rule_book' = Some(a.map)
                     /\ UNCHANGED result
    /\ UNCHANGED <<rule_source, it, yielded>>
    /\ UNCHANGED scanner_vars

\* the constructor's add_rules loop adds the next definition to the book
\* under construction; a schema error ends build_rule_book before its
\* assignment
BuildAddRule ==
    /\ building # None
    /\ LET b == The(building)
           rules == Get(b.rule_defs, <<>>)
       IN /\ b.i < Len(rules)
          /\ LET a == add_rule(b.map, rules[b.i + 1], b.i)
             IN IF a.raise
                THEN /\ building' = None
                     /\ result' = Result("build_rule_book", SchemaError, 0)
                ELSE /\ building' = Some([b EXCEPT !.i = b.i + 1,
                                                   !.map = a.map])
                     /\ UNCHANGED result
    /\ UNCHANGED <<rule_source, rule_book, it, yielded>>
    /\ UNCHANGED scanner_vars

\* the constructor has returned: self.rule_book = the new book
BuildAssign ==
    /\ building # None
    /\ LET b == The(building)
       IN /\ b.i = Len(Get(b.rule_defs, <<>>))
          /\ rule_book' = Some(b.map)
    /\ building' = None
    /\ result' = Result("build_rule_book", "ok", 0)
    /\ UNCHANGED <<rule_source, it, yielded>>
    /\ UNCHANGED scanner_vars

\* the books build_rule_book can have assigned from the files at hand
BuiltBooks ==
    {build_rule_book(None, d).rule_book :
        d \in {e \in EngineDocuments : ~RuleBook_init(e).raise}}

\* An engine that has no rule book yet or the book of an earlier build,
\* of the file as it was then.
InitInterleaved ==
    /\ rule_source \in EngineDocuments
    /\ rule_book \in {None} \cup BuiltBooks
    /\ it = None
    /\ yielded = <<>>
    /\ result = Result("init", "ok", 0)
    /\ run_state = "Idle"
    /\ stages = <<>>
    /\ instance_network_tag_data = <<>>
    /\ all_violations = <<>>
    /\ sink = <<>>
    /\ building = None

NextInterleaved ==
    \/ BuildBegin
    \/ BuildAddRule
    \/ BuildAssign
    \/ \E records \in EngineBatches, force_rebuild \in BOOLEAN :
           FindPolicyViolations(records, force_rebuild)
    \/ IterNext

SpecInterleaved == InitInterleaved /\ [][NextInterleaved]_vars

----------------------------------------------------------------------------
(* What the claims speak of *)

TagsOf(rec) == Get(rec.tags, <<>>)
TagSet(rec) == {TagsOf(rec)[i] : i \in 1..Len(TagsOf(rec))}

\* the record's network path has the expected structure
Conforms(rec) == re_search_network(rec.network) # None
ExtractedNetwork(rec) == The(re_search_network(rec.network))

\* the rule's project and network patterns both match the record
InScope(rule, rec) ==
    /\ Conforms(rec)
    /\ re_match(rule.rules.project_id, rec.project_id)
    /\ re_match(rule.rules.network, ExtractedNetwork(rec))

BlacklistHit(rule, rec) == TagSet(rec) \cap rule.rules.blacklist # {}
WhitelistMiss(rule, rec) ==
    /\ rule.rules.whitelist # {}
    /\ ~(TagSet(rec) \subseteq rule.rules.whitelist)
Offends(rule, rec) == BlacklistHit(rule, rec) \/ WhitelistMiss(rule, rec)

\* The generator of rule number r of the sequence has gone through record
\* number c: the sequence has moved past the pair, and no earlier record
\* ended that generator.
Evaluated(i, r, c) ==
    /\ r < i.r \/ (r = i.r /\ c < i.c)
    /\ \A k \in 1..(c - 1) : Conforms(i.records[k])

YieldedAt(r, c) ==
    {k \in 1..Len(yielded) : yielded[k].r = r /\ yielded[k].c = c}

Pairs(i) == (1..Len(i.rules)) \X (1..Len(i.records))

----------------------------------------------------------------------------
(* C1..C4: Rule.find_violations and the enumeration over a batch *)

\* C1: for every rule and every record in the rule's scope that the rule
\* has evaluated, a violation was yielded for the record if and only if
\* some tag of the record is in the blacklist, or the whitelist is
\* non-empty and some tag of the record is not in it.
C1_ViolationIffOffends ==
    it # None =>
        LET i == The(it)
        IN \A p \in Pairs(i) :
              Evaluated(i, p[1], p[2])
              /\ InScope(i.rules[p[1]], i.records[p[2]])
              => (YieldedAt(p[1], p[2]) # {}
                    <=> Offends(i.rules[p[1]], i.records[p[2]]))

\* a whitelist-only violation and an in-scope record without violation
\* have both been evaluated
C1_Witness ==
    /\ it # None
    /\ LET i == The(it)
       IN \E p, q \in Pairs(i) :
             /\ Evaluated(i, p[1], p[2]) /\ Evaluated(i, q[1], q[2])
             /\ InScope(i.rules[p[1]], i.records[p[2]])
             /\ InScope(i.rules[q[1]], i.records[q[2]])
             /\ WhitelistMiss(i.rules[p[1]], i.records[p[2]])
             /\ ~BlacklistHit(i.rules[p[1]], i.records[p[2]])
             /\ YieldedAt(p[1], p[2]) # {}
             /\ ~Offends(i.rules[q[1]], i.records[q[2]])
             /\ TagSet(i.records[q[2]]) # {}
             /\ YieldedAt(q[1], q[2]) = {}

\* C2: a violation is yielded only for a record whose project id the
\* rule's project pattern matches and whose extracted network the rule's
\* network pattern matches; a rule scoped to network n1 yields nothing for
\* a record on network n2.
C2_ViolationOnlyInScope ==
    it # None =>
        LET i == The(it)
        IN /\ \A k \in 1..Len(yielded) :
                 InScope(i.rules[yielded[k].r], i.records[yielded[k].c])
           /\ \A p \in Pairs(i) :
                 /\ i.rules[p[1]].rules.network = escape_and_globify(N1)
                 /\ Conforms(i.records[p[2]])
                 /\ ExtractedNetwork(i.records[p[2]]) = N2
                 => YieldedAt(p[1], p[2]) = {}

\* a rule scoped to n1 has evaluated a record on n2 that carries a
\* blacklisted tag
C2_Witness ==
    /\ it # None
    /\ LET i == The(it)
       IN \E p \in Pairs(i) :
             /\ Evaluated(i, p[1], p[2])
             /\ i.rules[p[1]].rules.network = escape_and_globify(N1)
             /\ Conforms(i.records[p[2]])
             /\ ExtractedNetwork(i.records[p[2]]) = N2
             /\ BlacklistHit(i.rules[p[1]], i.records[p[2]])
             /\ YieldedAt(p[1], p[2]) = {}

\* the rule book's rules and the records they were evaluated against
BookPairs == (DOMAIN The(rule_book)) \X (1..Len(The(it).records))

YieldedFor(index, c) ==
    {k \in 1..Len(yielded) :
        yielded[k].violation.rule_index = index /\ yielded[k].c = c}

\* C3: an enumeration that has come to its end over N rules and M
\* conforming records has yielded exactly one violation for each (rule,
\* record) pair that satisfies the rule's predicate and none for any other
\* pair, at most N*M in all.
C3_OnePerOffendingPair ==
    (/\ it # None
     /\ The(it).r > Len(The(it).rules)
     /\ \A c \in 1..Len(The(it).records) : Conforms(The(it).records[c]))
    => /\ \A p \in BookPairs :
             Cardinality(YieldedFor(p[1], p[2])) =
                 IF /\ InScope(The(rule_book)[p[1]], The(it).records[p[2]])
                    /\ Offends(The(rule_book)[p[1]], The(it).records[p[2]])
                 THEN 1 ELSE 0
       /\ \A k \in 1..Len(yielded) :
             <<yielded[k].violation.rule_index, yielded[k].c>> \in BookPairs
       /\ Len(yielded) <= Cardinality(DOMAIN The(rule_book))
                            * Len(The(it).records)

\* two rules over two records, enumerated to the end, with some pairs
\* yielding a violation and some not
C3_Witness ==
    /\ it # None
    /\ The(it).r > Len(The(it).rules)
    /\ \A c \in 1..Len(The(it).records) : Conforms(The(it).records[c])
    /\ Cardinality(DOMAIN The(rule_book)) = 2
    /\ Len(The(it).records) = 2
    /\ Len(yielded) \in {2, 3}

\* C4: at most one violation is yielded for one (rule, record) pair, and
\* its tags field is the record's whole tag list in its order.
C4_OneViolationWithAllTags ==
    it # None =>
        LET i == The(it)
        IN /\ \A p \in Pairs(i) : Cardinality(YieldedAt(p[1], p[2])) <= 1
           /\ \A k \in 1..Len(yielded) :
                 yielded[k].violation.tags = TagsOf(i.records[yielded[k].c])

\* a violation for a record with two tags of which only one offends, and
\* one for a record with two offending tags
C4_Witness ==
    /\ it # None
    /\ LET i == The(it)
       IN \E k, l \in 1..Len(yielded) :
             /\ Len(yielded[k].violation.tags) = 2
             /\ \E t \in TagSet(i.records[yielded[k].c]) :
                   /\ t \notin i.rules[yielded[k].r].rules.blacklist
                   /\ i.rules[yielded[k].r].rules.whitelist = {}
             /\ Len(yielded[l].violation.tags) = 2
             /\ TagSet(i.records[yielded[l].c])
                    \cap i.rules[yielded[l].r].rules.whitelist = {}
             /\ i.rules[yielded[l].r].rules.whitelist # {}

----------------------------------------------------------------------------
(* C5..C10: the rule book and the engine *)

\* a definition without project scope, without network scope, or with
\* neither a whitelist nor a blacklist entry
Malformed(def) ==
    \/ def.project_id = None
    \/ def.network = None
    \/ (def.whitelist = None \/ def.whitelist = Some({}))
       /\ (def.blacklist = None \/ def.blacklist = Some({}))

DefsOf(document) == Get(document, <<>>)

HasMalformed(document) ==
    \E k \in 1..Len(DefsOf(document)) : Malformed(DefsOf(document)[k])

\* the rules of a rule book, none when there is no book
MapOf(book) == IF book = None THEN EmptyMap ELSE The(book)

\* every rule of the map before is in the map after, under its index
Preserved(before, after) ==
    \A i \in DOMAIN before : i \in DOMAIN after /\ after[i] = before[i]

C6_FailedBuildPublishesNothing ==
    [][(result'.op = "build_rule_book" /\ result'.outcome = SchemaError)
       => rule_book' = rule_book]_vars

\* a build has failed while the engine held a rule book with rules, on a
\* document that starts with a valid definition
C6_Witness ==
    /\ result = Result("build_rule_book", SchemaError, 0)
    /\ rule_book # None
    /\ DOMAIN The(rule_book) # {}
    /\ DefsOf(rule_source) # <<>>
    /\ ~Malformed(DefsOf(rule_source)[1])

\* C7: add_rules never replaces or removes the rule stored under an index
\* that is present.
C7_FirstRuleWins ==
    [][(result'.op = "add_rules" /\ rule_book # None)
       => /\ rule_book' # None
          /\ Preserved(The(rule_book), The(rule_book'))]_vars

\* an add_rules call has offered definitions under indices that were taken
C7_Witness ==
    /\ result.op = "add_rules"
    /\ result.outcome = "ok"
    /\ result.dropped > 0
    /\ Cardinality(DOMAIN The(rule_book)) > result.dropped

\* C8: an add_rules call on a rule book, with a batch that holds a
\* malformed definition, ends with a schema error and leaves every rule of
\* the book present and unchanged.
C8_FailedAddKeepsRules ==
    [][(result'.op = "add_rules" /\ rule_book # None)
       => \A rules \in BatchDocuments :
             (HasMalformed(rules) /\ AddRules(rules))
             => /\ result'.outcome = SchemaError
                /\ rule_book' # None
                /\ Preserved(The(rule_book), The(rule_book'))]_vars

\* an add_rules call has failed after it went past rules of the book
C8_Witness ==
    /\ result.op = "add_rules"
    /\ result.outcome = SchemaError
    /\ result.dropped > 0
    /\ DOMAIN The(rule_book) # {}

\* the rule is the compilation of the definition at position
\* rule.rule_index (0-based) of the list
CompiledFrom(rule, defs) ==
    /\ rule.rule_index < Len(defs)
    /\ LET def == defs[rule.rule_index + 1]
       IN /\ ~Malformed(def)
          /\ rule.rule_name = def.name
          /\ rule.rules.whitelist = Get(def.whitelist, {})
          /\ rule.rules.blacklist = Get(def.blacklist, {})
          /\ rule.rules.project_id = escape_and_globify(The(def.project_id))
          /\ rule.rules.network = escape_and_globify(The(def.network))

\* every rule that the step put into the rule book is the compilation of
\* the definition at its rule_index in the list
AddedFrom(before, after, defs) ==
    \A i \in DOMAIN after :
        \/ i \in DOMAIN before /\ after[i] = before[i]
        \/ after[i].rule_index = i /\ CompiledFrom(after[i], defs)

\* C9: the rule_index of a violation is that of the rule that yielded it,
\* and the rule_index of a rule is the 0-based position of its definition
\* in the definitions list it was added from: the document for a build,
\* the batch for add_rules.
C9_RuleIndexIsPosition ==
    /\ [](\A k \in 1..Len(yielded) :
             /\ yielded[k].violation.rule_index
                    = The(it).rules[yielded[k].r].rule_index
             /\ yielded[k].violation.rule_name
                    = The(it).rules[yielded[k].r].rule_name)
    /\ [][/\ (result'.op = "add_rules" /\ rule_book' # rule_book)
             => \A rules \in EngineDocuments :
                   AddRules(rules)
                   => AddedFrom(MapOf(rule_book), MapOf(rule_book'),
                                DefsOf(rules))
          /\ (result'.op \in {"build_rule_book", "find_policy_violations"}
              /\ rule_book' # rule_book)
             => AddedFrom(EmptyMap, MapOf(rule_book'), DefsOf(rule_source))
          /\ (result'.op = "find_policy_violations"
              /\ result'.outcome = "ok")
             => \A k \in 1..Len(The(it').rules) :
                   /\ The(it').rules[k].rule_index \in DOMAIN The(rule_book')
                   /\ The(it').rules[k]
                        = The(rule_book')[The(it').rules[k].rule_index]
         ]_vars

\* a violation has been yielded by a rule that add_rules added beyond the
\* rules of the file, after the violation of the rule at index 0
C9_Witness ==
    /\ Len(yielded) = 2
    /\ yielded[1].violation.rule_index = 0
    /\ yielded[2].violation.rule_index = 1
    /\ yielded[2].violation.rule_index >= Len(DefsOf(rule_source))
    /\ yielded[1].violation.rule_name # yielded[2].violation.rule_name

\* C10: find_policy_violations called without a rule book or with
\* force_rebuild builds the rule book from the rule definition file; when
\* that succeeds the returned sequence ranges over the rules of the new
\* book, and when it fails the call ends with the schema error and returns
\* no sequence.
C10_FindRebuildsFirst ==
    [][\A records \in EngineBatches, force_rebuild \in BOOLEAN :
          (/\ result'.op = "find_policy_violations"
           /\ rule_book = None \/ force_rebuild
           /\ FindPolicyViolations(records, force_rebuild))
          => IF HasMalformed(rule_source)
             THEN /\ result'.outcome = SchemaError
                  /\ it' = it
                  /\ yielded' = yielded
             ELSE /\ result'.outcome = "ok"
                  /\ rule_book' # None
                  /\ AddedFrom(EmptyMap, The(rule_book'),
                               DefsOf(rule_source))
                  /\ DOMAIN The(rule_book')
                        = 0..(Len(DefsOf(rule_source)) - 1)
                  /\ it' # None
                  /\ The(it').records = records
                  /\ {The(it').rules[k] : k \in 1..Len(The(it').rules)}
                        = {The(rule_book')[i] : i \in DOMAIN The(rule_book')}
      ]_vars

\* a forced rebuild has failed: the engine had a rule book, and the call
\* ended with the schema error
C10_Witness ==
    /\ result = Result("find_policy_violations", SchemaError, 0)
    /\ rule_book # None
    /\ HasMalformed(rule_source)

----------------------------------------------------------------------------
(* C11..C14: the returned sequence, rebuilding, add_rules without a book *)

\* the violations the caller has taken from the sequence, in order
Taken == [k \in 1..Len(yielded) |-> yielded[k].violation]

\* the caller's iteration over the sequence has come to its end, over
\* records that all conform (no generator raised on the way)
IterationEnded ==
    /\ it # None
    /\ result = Result("next", "StopIteration", 0)
    /\ \A k \in 1..Len(The(it).records) : Conforms(The(it).records[k])

\* a second iteration over the sequence the caller holds
SecondIteration ==
    drain(The(it).rules, The(it).records, The(it).r, The(it).c)

\* C11 as stated: once the first iteration over the returned sequence has
\* ended, iterating the sequence a second time yields the same violations
\* as the first iteration did.
C11_Restartable ==
    IterationEnded =>
        /\ ~SecondIteration.raise
        /\ SecondIteration.out = Taken

\* C11 amended: the returned sequence is single-pass. Once the first
\* iteration has ended a second iteration over it yields nothing; a new
\* find_policy_violations call with the same records and the same rules
\* returns a sequence that yields the violations of the first iteration
\* again.
C11_SinglePassRecomputedPerCall ==
    /\ [](IterationEnded =>
             /\ ~SecondIteration.raise
             /\ SecondIteration.out = <<>>)
    /\ [][(/\ IterationEnded
           /\ result'.op = "find_policy_violations"
           /\ result'.outcome = "ok"
           /\ The(it').records = The(it).records
           /\ The(it').rules = The(it).rules)
          => LET again == drain(The(it').rules, The(it').records,
                                The(it').r, The(it').c)
             IN ~again.raise /\ again.out = Taken
      ]_vars

\* the first iteration has ended after it yielded two violations
C11_Witness ==
    /\ IterationEnded
    /\ Len(yielded) = 2

\* the elements of a sequence with their multiplicities
BagOf(s) ==
    [x \in {s[k] : k \in 1..Len(s)} |->
        Cardinality({k \in 1..Len(s) : s[k] = x})]

\* find_policy_violations on the records, iterated to its end: how the
\* call and the iteration end, and the multiset of the violations
ViolationsOf(book, source, records) ==
    LET f == find_policy_violations(book, source, records, FALSE)
        i == The(f.violations)
        d == drain(i.rules, i.records, i.r, i.c)
    IN IF f.raise
       THEN [outcome |-> SchemaError, violations |-> BagOf(<<>>)]
       ELSE [outcome |-> IF d.raise THEN "AttributeError" ELSE "ok",
             violations |-> BagOf(d.out)]

\* C12: when build_rule_book has succeeded and is called again on the
\* same rule definition file, find_policy_violations yields for every
\* batch of records the same multiset of violations after the second build
\* as after the first.
C12_RebuildIdempotent ==
    [][(/\ result = Result("build_rule_book", "ok", 0)
        /\ result'.op = "build_rule_book"
        /\ rule_source' = rule_source)
       => /\ result'.outcome = "ok"
          /\ \A records \in EngineBatches :
                ViolationsOf(rule_book', rule_source', records)
                    = ViolationsOf(rule_book, rule_source, records)
      ]_vars

\* build_rule_book has succeeded after an evaluation in which the rules
\* of the book it has built yielded a violation
C12_Witness ==
    /\ result = Result("build_rule_book", "ok", 0)
    /\ it # None
    /\ The(it).rules = get_resource_rules(The(rule_book))
    /\ yielded # <<>>

\* C13: after a successful build_rule_book the rule book holds exactly
\* the rules of the rule definition file, one per definition under its
\* position; no rule that add_rules had put into the earlier book remains.
C13_BuildFromScratch ==
    result = Result("build_rule_book", "ok", 0) =>
        /\ rule_book # None
        /\ DOMAIN The(rule_book) = 0..(Len(DefsOf(rule_source)) - 1)
        /\ AddedFrom(EmptyMap, The(rule_book), DefsOf(rule_source))

\* build_rule_book has succeeded on an engine whose earlier book held a
\* rule beyond those of the file: an evaluation before the build ranged
\* over more rules than the file has definitions
C13_Witness ==
    /\ result = Result("build_rule_book", "ok", 0)
    /\ it # None
    /\ Len(The(it).rules) > Len(DefsOf(rule_source))
    /\ Len(DefsOf(rule_source)) > 0

\* C14: add_rules on an engine without a rule book ends without an
\* exception whatever the definitions are, malformed ones included; the
\* engine has no rule book afterwards, and every later evaluation yields
\* what it would have yielded without the call.
C14_AddRulesWithoutBookIsNoOp ==
    [][\A rules \in EngineDocuments :
          (/\ rule_book = None
           /\ result'.op = "add_rules"
           /\ AddRules(rules))
          => /\ result'.outcome = "ok"
             /\ rule_book' = None
             /\ UNCHANGED <<rule_source, it, yielded>>
             /\ \A records \in EngineBatches :
                   ViolationsOf(rule_book', rule_source', records)
                       = ViolationsOf(rule_book, rule_source, records)
      ]_vars

\* add_rules has run on an engine that has no rule book
C14_Witness ==
    /\ result = Result("add_rules", "ok", 0)
    /\ rule_book = None

----------------------------------------------------------------------------
(* C15..C19: the scanner's run *)

StageOrder == <<"retrieve", "evaluate", "emit">>

\* the steps of a run: each stage is entered from the one before it and
\* left for the next one or, on an exception, for the end of the run
RunSteps ==
    {<<"Idle", "Retrieving">>, <<"Retrieving", "Evaluating">>,
     <<"Evaluating", "Emitting">>, <<"Emitting", "Done">>,
     <<"Retrieving", "Failed">>, <<"Evaluating", "Failed">>,
     <<"Emitting", "Failed">>}

\* C15: the stages a run has entered are retrieve, evaluate, emit in that
\* order, each at most once; every step of the run goes from a stage to
\* the next one or to the failed end, never back; and a run is Done only
\* by the return of the emit stage, after all three stages and the one
\* call of the sink.
C15_StagesInOrder ==
    /\ [](/\ Len(stages) <= Len(StageOrder)
          /\ stages = SubSeq(StageOrder, 1, Len(stages))
          /\ run_state = "Done" => stages = StageOrder /\ Len(sink) = 1)
    /\ [][/\ run_state' # run_state => <<run_state, run_state'>> \in RunSteps
          /\ stages' # stages =>
                /\ Len(stages') = Len(stages) + 1
                /\ SubSeq(stages', 1, Len(stages)) = stages
          /\ run_state' = "Done" => run_state = "Emitting"
      ]_vars

\* a run is Done after it has found a violation
C15_Witness ==
    /\ run_state = "Done"
    /\ stages = StageOrder
    /\ all_violations # <<>>

\* C16: when retrieval fails the run ends there with the error: the
\* evaluate stage is not entered, the sink is not called, and nothing
\* follows (no retry); when the sink fails the run ends with the error and
\* not as Done. A run that has ended with an error has reported it, and no
\* step follows.
C16_StageFailureEndsRun ==
    /\ [][(run_state = "Retrieving" /\ RetrieveFails)
          => /\ run_state' = "Failed"
             /\ result' = Result("run", "MySQLError", 0)
             /\ stages' = <<"retrieve">>
             /\ all_violations' = <<>>
             /\ sink' = <<>>
      ]_vars
    /\ [][(run_state = "Emitting" /\ OutputResultsFails)
          => /\ run_state' = "Failed"
             /\ result' = Result("run", "MySQLError", 0)
      ]_vars
    /\ [](run_state = "Failed" =>
             /\ result.op = "run"
             /\ result.outcome \notin {"ok", "running"})
    /\ [][run_state # "Failed"]_vars

\* retrieval has failed and the run has ended
C16_Witness ==
    /\ run_state = "Failed"
    /\ stages = <<"retrieve">>
    /\ result = Result("run", "MySQLError", 0)

\* The violations a scan of the retrieved data has to find: one for every
\* rule of the book and every record of an instance that conforms, is in
\* the rule's scope and offends the rule. A triple names the instance's
\* list, the record in it and the rule.
ScanTriples(book, data) ==
    {t \in (1..Len(data))
               \X (1..Max({0} \cup {Len(data[b]) : b \in 1..Len(data)}))
               \X (DOMAIN book) :
        /\ t[2] <= Len(data[t[1]])
        /\ InScope(book[t[3]], data[t[1]][t[2]])
        /\ Offends(book[t[3]], data[t[1]][t[2]])}

ViolationAt(book, data, t) ==
    LET rec == data[t[1]][t[2]]
    IN RuleViolation(book[t[3]], rec.project_id, ExtractedNetwork(rec),
                     TagsOf(rec), rec)

ExpectedViolations(book, data) ==
    LET triples == ScanTriples(book, data)
    IN [v \in {ViolationAt(book, data, t) : t \in triples} |->
           Cardinality({t \in triples : ViolationAt(book, data, t) = v})]

HasNonConforming(data) ==
    \E b \in 1..Len(data) : \E c \in 1..Len(data[b]) : ~Conforms(data[b][c])

\* the evaluate stage of the run has ended
EvaluationEnded == Len(stages) >= 2 /\ run_state # "Evaluating"

\* C17 as stated: when the retrieved data holds a record whose network
\* path does not conform, the evaluate stage still ends by going on to the
\* emit stage, with the violations of all the other records found, and
\* the sink is given those violations.
C17_NonConformingRecordSkipped ==
    (EvaluationEnded /\ HasNonConforming(instance_network_tag_data)) =>
        /\ stages = StageOrder
        /\ BagOf(all_violations)
              = ExpectedViolations(The(rule_book), instance_network_tag_data)
        /\ run_state = "Done" => sink = <<_flatten_violations(all_violations)>>

\* C18: the sink is called at most once, and only in the emit stage; in a
\* run that is Done it has been called exactly once, the violations of the
\* run are those of the whole retrieved data, and the call received one
\* output record per violation, the k-th record that of the k-th
\* violation.
C18_SinkCalledOnceWithAll ==
    /\ Len(sink) <= 1
    /\ sink # <<>> => stages = StageOrder /\ run_state \in {"Done", "Failed"}
    /\ run_state = "Done" =>
          /\ Len(sink) = 1
          /\ BagOf(all_violations)
                = ExpectedViolations(The(rule_book),
                                     instance_network_tag_data)
          /\ Len(sink[1]) = Len(all_violations)
          /\ \A k \in 1..Len(all_violations) :
                /\ sink[1][k].violation_data.raw_data
                      = all_violations[k].raw_data
                /\ sink[1][k].rule_index = all_violations[k].rule_index

\* a run is Done in which two instances had a violation each
C18_Witness ==
    /\ run_state = "Done"
    /\ Len(instance_network_tag_data) = 2
    /\ Len(sink) = 1
    /\ Len(sink[1]) >= 2
    /\ sink[1][1].resource_id # sink[1][2].resource_id

OutputFields ==
    {"resource_id", "resource_type", "rule_index", "rule_name",
     "violation_type", "violation_data"}

\* C19: what _flatten_violations gives the sink is one output record per
\* violation, in the order of the violations; the record's resource_id is
\* the violation's instance name, its resource_type, rule_index, rule_name
\* and violation_type are the violation's, and its violation_data holds
\* the violation's project, network, tags, instance_name and raw_data.
C19_FlattenedRecordShape ==
    \A c \in 1..Len(sink) :
        /\ Len(sink[c]) = Len(all_violations)
        /\ \A k \in 1..Len(all_violations) :
              LET out == sink[c][k]
                  violation == all_violations[k]
              IN /\ DOMAIN out = OutputFields
                 /\ out.resource_id = violation.instance_name
                 /\ out.resource_type = violation.resource_type
                 /\ out.rule_index = violation.rule_index
                 /\ out.rule_name = violation.rule_name
                 /\ out.violation_type = violation.violation_type
                 /\ out.violation_data
                       = [project |-> violation.project,
                          network |-> violation.network,
                          tags |-> violation.tags,
                          instance_name |-> violation.instance_name,
                          raw_data |-> violation.raw_data]

\* the sink has received the records of two violations of different rules
C19_Witness ==
    /\ Len(sink) = 1
    /\ Len(all_violations) >= 2
    /\ \E j, k \in 1..Len(sink[1]) :
          sink[1][j].rule_index # sink[1][k].rule_index

----------------------------------------------------------------------------
(* C20: build_rule_book beside evaluations *)

\* the rules of a rule book that a build has completed
CompleteRules ==
    {get_resource_rules(The(book)) : book \in BuiltBooks}

\* C20: the rules an evaluation ranges over are always those of a rule
\* book some build has completed. While a build is under way its steps
\* leave the engine's rule book as it is, and an evaluation then ranges
\* over the rules of that previous book; the build's assignment replaces
\* it by the book of all the definitions loaded, never by a part of them.
C20_EvaluationSeesCompleteBook ==
    /\ [](it # None => The(it).rules \in CompleteRules)
    /\ [][(building # None /\ building' # building /\ building' # None)
          => rule_book' = rule_book
      ]_vars
    /\ [][(/\ building # None
           /\ rule_book # None
           /\ result' = Result("find_policy_violations", "ok", 0)
           /\ rule_book' = rule_book)
          => The(it').rules = get_resource_rules(The(rule_book))
      ]_vars
    /\ [][(building # None /\ building' = None /\ result'.outcome = "ok")
          => /\ ~RuleBook_init(The(building).rule_defs).raise
             /\ rule_book'
                   = Some(RuleBook_init(The(building).rule_defs).map)
      ]_vars

\* an evaluation has taken place while a build had added one of its two
\* rules: it ranges over the rules of the engine's book, which are not
\* those added so far
C20_Witness ==
    /\ building # None
    /\ The(building).i = 1
    /\ Len(Get(The(building).rule_defs, <<>>)) = 2
    /\ result = Result("find_policy_violations", "ok", 0)
    /\ rule_book # None
    /\ The(it).rules = get_resource_rules(The(rule_book))
    /\ The(rule_book) # The(building).map

----------------------------------------------------------------------------
(* C21: the scanner's rule book *)

\* C21: the scanner's engine has the rule book that the constructor built
\* from the rules file, and no step of run() changes it; the violations a
\* run has found are those of that book's rules over the retrieved data.
C21_RuleBookFixedDuringRun ==
    /\ [](/\ rule_book # None
          /\ rule_book = build_rule_book(None, rule_source).rule_book
          /\ Len(stages) = 3 =>
                BagOf(all_violations)
                    = ExpectedViolations(The(rule_book),
                                         instance_network_tag_data))
    /\ [][rule_book' = rule_book]_vars

\* the evaluate stage has returned after it evaluated the records of two
\* instances against a book of two rules
C21_Witness ==
    /\ run_state = "Emitting"
    /\ Len(instance_network_tag_data) = 2
    /\ Cardinality(DOMAIN The(rule_book)) = 2
    /\ Len(all_violations) >= 2

----------------------------------------------------------------------------
(* C22: scope patterns *)

\* what an anchored glob without a star inside a literal matches: the
\* star every string, a literal the identical string only
GlobMatches(glob, value) == glob = STAR \/ glob = value

----------------------------------------------------------------------------
(* C23..C26: the rule book's indices *)

\* the rule_index values of a list of rules go strictly upwards
Ascending(rules) ==
    \A j, k \in 1..Len(rules) :
        j < k => rules[j].rule_index < rules[k].rule_index

Size(book) == Cardinality(DOMAIN The(book))

\* C24: add_rules with a batch of m valid definitions on a book of n
\* rules ends without error; the definitions at positions below n are
\* dropped, those at positions n..m-1 are added under their positions,
\* and the book then has max(n, m) rules of which the first n are the
\* ones it had.
C24_AddRulesRenumbersFromZero ==
    [][(result'.op = "add_rules" /\ rule_book # None)
       => \A rules \in EngineDocuments :
             (~HasMalformed(rules) /\ AddRules(rules))
             => LET n == Size(rule_book)
                    m == Len(DefsOf(rules))
                IN /\ result'.outcome = "ok"
                   /\ result'.dropped = IF n < m THEN n ELSE m
                   /\ DOMAIN The(rule_book')
                         = 0..((IF n < m THEN m ELSE n) - 1)
                   /\ Preserved(The(rule_book), The(rule_book'))
                   /\ \A i \in n..(m - 1) :
                         /\ The(rule_book')[i].rule_index = i
                         /\ CompiledFrom(The(rule_book')[i], DefsOf(rules))
      ]_vars

\* add_rules has dropped one definition and added another to the book
\* built from a file of one definition
C24_Witness ==
    /\ result = Result("add_rules", "ok", 1)
    /\ Len(DefsOf(rule_source)) = 1
    /\ Size(rule_book) = 2
    /\ it = None

\* the 0-based position of the first malformed definition of a batch
FirstMalformed(rules) ==
    CHOOSE k \in 0..(Len(DefsOf(rules)) - 1) :
        /\ Malformed(DefsOf(rules)[k + 1])
        /\ \A j \in 0..(k - 1) : ~Malformed(DefsOf(rules)[j + 1])

\* C25: add_rules with a batch whose first malformed definition stands at
\* a position that is taken in the book ends with the schema error: the
\* definition is not skipped as one whose index is taken.
C25_ValidationBeforeIndex ==
    [][(result'.op = "add_rules" /\ rule_book # None)
       => \A rules \in EngineDocuments :
             (/\ HasMalformed(rules)
              /\ FirstMalformed(rules) \in DOMAIN The(rule_book)
              /\ AddRules(rules))
             => /\ result'.outcome = SchemaError
                /\ result'.dropped = FirstMalformed(rules)
                /\ rule_book' = rule_book
      ]_vars

\* add_rules has failed on a book of two rules after it dropped the
\* definition before the malformed one
C25_Witness ==
    /\ result = Result("add_rules", SchemaError, 1)
    /\ Size(rule_book) = 2

\* C26: add_rules with a batch whose first malformed definition stands at
\* position k ends with the schema error and leaves in the book the rules
\* it had and the definitions at the positions below k that were free;
\* nothing of position k or later is added.
C26_AddRulesNotAtomic ==
    [][(result'.op = "add_rules" /\ rule_book # None)
       => \A rules \in EngineDocuments :
             (HasMalformed(rules) /\ AddRules(rules))
             => LET k == FirstMalformed(rules)
                    free == (0..(k - 1)) \ DOMAIN The(rule_book)
                IN /\ result'.outcome = SchemaError
                   /\ DOMAIN The(rule_book') = DOMAIN The(rule_book) \cup free
                   /\ Preserved(The(rule_book), The(rule_book'))
                   /\ \A i \in free :
                         /\ The(rule_book')[i].rule_index = i
                         /\ CompiledFrom(The(rule_book')[i], DefsOf(rules))
      ]_vars

\* add_rules has failed on the book of an empty file and has left a rule
\* in it
C26_Witness ==
    /\ result = Result("add_rules", SchemaError, 0)
    /\ DefsOf(rule_source) = <<>>
    /\ rule_book # None
    /\ Size(rule_book) = 1

\* the rules of the rule book as find_policy_violations reads them
BookRules == get_resource_rules(MapOf(rule_book))

\* what the next step of the sequence gives when it ranges over rules
NextOver(rules) ==
    chain_next(rules, The(it).records, The(it).r, The(it).c)

\* C27: the rules a returned sequence ranges over are fixed when
\* find_policy_violations is called: they are the rules of the book at that
\* moment, build_rule_book and add_rules called afterwards leave the
\* sequence as it is, and every later step of the iteration is the step
\* over those rules, whatever the rule book holds by then.
C27_RulesFixedAtCall ==
    [][/\ (result'.op = "find_policy_violations" /\ result'.outcome = "ok")
          => The(it').rules = BookRules'
       /\ (result'.op \in {"build_rule_book", "add_rules"})
          => it' = it /\ yielded' = yielded
       /\ (result'.op = "next")
          => /\ The(it').rules = The(it).rules
             /\ The(it').records = The(it).records
             /\ result'.outcome = NextOver(The(it).rules).outcome
             /\ result'.outcome = "ok"
                => /\ Len(yielded') = Len(yielded) + 1
                   /\ yielded'[Len(yielded')].violation
                          = NextOver(The(it).rules).item[1]
                   /\ \E k \in 1..Len(The(it).rules) :
                          /\ The(it).rules[k].rule_index
                               = yielded'[Len(yielded')].violation.rule_index
                          /\ The(it).rules[k].rule_name
                               = yielded'[Len(yielded')].violation.rule_name
      ]_vars

\* a violation has been taken from the sequence for a rule that a rebuild
\* after the call removed from the rule book
C27_Witness ==
    /\ it # None
    /\ rule_book # None
    /\ result = Result("next", "ok", 0)
    /\ Len(yielded) >= 1
    /\ yielded[Len(yielded)].violation.rule_index \notin DOMAIN The(rule_book)
    /\ Len(The(it).rules) > Len(BookRules)

\* evaluating the retrieved data raises: the book has a rule and some
\* record's network path does not conform
EvaluationRaises ==
    /\ rule_book # None
    /\ Size(rule_book) > 0
    /\ HasNonConforming(instance_network_tag_data)

\* C28: the sink never receives a partial result. Whenever the sink has
\* been called, the evaluate stage had returned and the sink was given the
\* flattened violations of the whole retrieved data; when evaluating any
\* record raises, the run fails in the evaluate stage, without an emit
\* stage and with the sink not called at all.
C28_NoPartialResult ==
    /\ sink # <<>> =>
          /\ stages = StageOrder
          /\ ~EvaluationRaises
          /\ BagOf(all_violations)
                = ExpectedViolations(The(rule_book),
                                     instance_network_tag_data)
          /\ sink = <<_flatten_violations(all_violations)>>
    /\ (EvaluationEnded /\ EvaluationRaises) =>
          /\ run_state = "Failed"
          /\ result = Result("run", "AttributeError", 0)
          /\ stages = <<"retrieve", "evaluate">>
          /\ sink = <<>>
    /\ result.outcome = "AttributeError" => sink = <<>>

\* a run has failed in the evaluate stage at its second instance, after a
\* first instance that has a violation under the blacklist rule, and the
\* sink has nothing
C28_Witness ==
    /\ run_state = "Failed"
    /\ result = Result("run", "AttributeError", 0)
    /\ Len(instance_network_tag_data) = 2
    /\ instance_network_tag_data[1][1].instance_name = "i1"
    /\ ~Conforms(instance_network_tag_data[2][1])
    /\ The(rule_book)[0].rule_name = "black"
    /\ sink = <<>>

----------------------------------------------------------------------------
(* C29, C30: records a rule cannot evaluate, and records without tags *)

\* the pairs of rule and record the sequence i has still to evaluate
PairsFrom(i) ==
    {p \in Pairs(i) : p[1] > i.r \/ (p[1] = i.r /\ p[2] >= i.c)}

\* pair p is evaluated before pair q
Before(p, q) == p[1] < q[1] \/ (p[1] = q[1] /\ p[2] < q[2])

\* the evaluation of pair p ends a step of the iteration: the record's
\* path does not conform, whatever the rule, or the rule yields for it
Stops(i, p) ==
    \/ ~Conforms(i.records[p[2]])
    \/ /\ InScope(i.rules[p[1]], i.records[p[2]])
       /\ Offends(i.rules[p[1]], i.records[p[2]])

\* the pairs at which the next step of the sequence i can only fail
FailsAt(i) ==
    {p \in PairsFrom(i) :
        /\ ~Conforms(i.records[p[2]])
        /\ \A q \in PairsFrom(i) : Before(q, p) => ~Stops(i, q)}

\* a rule whose project or network scope does not apply to the record
OutOfScope(rule, rec) ==
    \/ ~re_match(rule.rules.project_id, rec.project_id)
    \/ ~re_match(rule.rules.network, rec.network[Len(rec.network)])

\* C29: the network is extracted before the scope is tested. A call of
\* find_policy_violations on a batch with a record whose network path does
\* not conform returns its sequence without failing and without having
\* yielded; a step of the iteration fails exactly when the next pair of
\* rule and record that ends the step has such a record, whatever the
\* project and network scope of the rule, and no rule yields for a record
\* that stands at or after such a record in the batch.
C29_ExtractionBeforeScope ==
    /\ [](it # None =>
            \A k \in 1..Len(yielded) :
               \A c \in 1..yielded[k].c : Conforms(The(it).records[c]))
    /\ [][/\ (result'.op = "find_policy_violations")
             => /\ result'.outcome = "ok"
                /\ yielded' = <<>>
                /\ The(it').r = 1 /\ The(it').c = 1
          /\ (result'.op = "next")
             => /\ result'.outcome = "AttributeError"
                      <=> FailsAt(The(it)) # {}
                /\ result'.outcome = "AttributeError"
                      => \A p \in FailsAt(The(it)) : The(it').r = p[1] + 1
         ]_vars

\* a step of the iteration has failed under the rule scoped to project p2
\* and network n2, on a record of project p1 whose path does not conform
C29_Witness ==
    /\ it # None
    /\ result = Result("next", "AttributeError", 0)
    /\ The(it).r >= 2
    /\ The(it).rules[The(it).r - 1].rule_name = "other"
    /\ ~Conforms(The(it).records[1])
    /\ OutOfScope(The(it).rules[The(it).r - 1], The(it).records[1])

\* C30: a record whose tag list is empty or absent never yields a
\* violation: no violation taken from a sequence is for such a record,
\* and every rule that has evaluated such a record, in its scope or not,
\* with a whitelist or without, has yielded nothing for it.
C30_NoTagsNoViolation ==
    it # None =>
       /\ \A k \in 1..Len(yielded) :
             /\ TagsOf(The(it).records[yielded[k].c]) # <<>>
             /\ yielded[k].violation.tags # <<>>
       /\ \A p \in Pairs(The(it)) :
             (/\ Evaluated(The(it), p[1], p[2])
              /\ The(it).records[p[2]].tags \in {None, Some(<<>>)})
             => YieldedAt(p[1], p[2]) = {}

\* the whitelist rule has evaluated, in its scope, a record with an empty
\* tag list and then a record without a tag list, and has yielded nothing
C30_Witness ==
    /\ it # None
    /\ result = Result("next", "StopIteration", 0)
    /\ yielded = <<>>
    /\ Len(The(it).records) = 2
    /\ The(it).records[1].tags = Some(<<>>)
    /\ The(it).records[2].tags = None
    /\ \E r \in 1..Len(The(it).rules) :
          /\ The(it).rules[r].rules.whitelist # {}
          /\ InScope(The(it).rules[r], The(it).records[1])
          /\ InScope(The(it).rules[r], The(it).records[2])

====
